---- MODULE Spec2Model ----
(***************************************************************************)
(* Model of the add-components engine (AddComponents): discovery of the    *)
(* candidate components of one `add` invocation, the exclusion pass, and   *)
(* the reconciliation of every candidate with the bit map (the persistent  *)
(* mapping store).                                                         *)
(*                                                                         *)
(* A path is a sequence of segments; a segment is the sequence of its      *)
(* dot-separated parts, so that foo/a.spec.ts is                           *)
(* << <<"foo">>, <<"a","spec","ts">> >>.  A template (DSL) has the same    *)
(* shape, with the parts "{PARENT}" and "{FILE_NAME}" as placeholders.     *)
(* All paths are relative to the consumer (project) root, which is also    *)
(* the working directory (alternateCwd is undefined).                      *)
(***************************************************************************)
EXTENDS Integers, Sequences, FiniteSets, TLC

VARIABLES
  bitMap,          \* the bit map: sequence of component records, in insertion order
  props,           \* AddProps of the invocation in progress (or of the last one)
  multiple,        \* isMultipleComponents of the invocation
  result,          \* what the caller got: "none" | "pending" | "ok" | an error kind
  added,           \* candidates (AddedComponent) as built and excluded, in input order
  found,           \* per candidate: foundComponentFromBitMap, read when its reconciliation starts
  fileState,       \* per candidate, per file: "pending" | "accepted" | "dropped" | "threw"
  compState,       \* per candidate: "skipped" | "checking" | "committed" | "empty" | "missingMain" | "failed"
  trackDirs,       \* per candidate: component.trackDir (the reconciliation may delete it)
  warnings,        \* [alreadyUsed: owner id -> paths, emptyDirectory: paths]
  addedComponents, \* AddResult list of the invocation
  missingMainFiles,\* ids collected by _addMultipleToBitMap
  branches,        \* the branches of the addOneComponent calls, before and after the exclusion
  calls,           \* number of invocations started
  startMap,        \* the bit map when the invocation in progress started
  prev             \* summary of the previous invocation, once it has settled

vars == <<bitMap, props, multiple, result, added, found, fileState, compState, trackDirs,
          warnings, addedComponents, missingMainFiles, branches, calls, startMap, prev>>

----------------------------------------------------------------------------
(* Bounds of the model *)

MaxCalls == 2

----------------------------------------------------------------------------
(* Program constants *)

AUTHORED == "AUTHORED"
IMPORTED == "IMPORTED"
NESTED == "NESTED"

PARENT == "{PARENT}"
FILE_NAME == "{FILE_NAME}"
PACKAGE_JSON == <<"package", "json">>
DEFAULT_DIST_DIRNAME == <<"dist">>

NoPath == <<>>
NoId == [scope |-> "", box |-> <<>>, name |-> <<>>, version |-> ""]
ConsumerDirName == <<"ws">>

----------------------------------------------------------------------------
(* Sequence helpers *)

Range(s) == {s[i] : i \in DOMAIN s}

Front(s) == SubSeq(s, 1, Len(s) - 1)

Last(s) == s[Len(s)]

IsPrefix(p, s) == Len(p) <= Len(s) /\ SubSeq(s, 1, Len(p)) = p

RECURSIVE Flatten(_)
Flatten(ss) == IF ss = <<>> THEN <<>> ELSE Head(ss) \o Flatten(Tail(ss))

RECURSIVE Uniq(_)
Uniq(s) ==
  IF s = <<>> THEN <<>>
  ELSE LET r == Uniq(Front(s))
       IN IF Last(s) \in Range(r) THEN r ELSE Append(r, Last(s))

Without(s, drop) == SelectSeq(s, LAMBDA x : x \notin drop)

----------------------------------------------------------------------------
(* The file system of the workspace (it does not change) *)

P(dir, file) == <<dir, file>>

DiskFiles ==
  << <<<<"bar", "ts">>>>,
     P(<<"bar">>, <<"b", "ts">>),
     P(<<"bar">>, <<"index", "ts">>),
     P(<<"foo">>, <<"a", "spec", "ts">>),
     P(<<"foo">>, <<"a", "ts">>),
     P(<<"imp">>, <<"package", "json">>),
     P(<<"imp">>, <<"x", "ts">>),
     P(<<"out">>, <<"o", "ts">>),
     P(<<"shared">>, <<"link", "ts">>),
     P(<<"shared">>, <<"main", "ts">>) >>

DiskDirs == { <<<<"bar">>>>, <<<<"foo">>>>, <<<<"imp">>>>, <<<<"out">>>>,
              <<<<"shared">>>>, <<<<"tmp">>>> }

AutoGeneratedFiles == { P(<<"shared">>, <<"link", "ts">>) }

BaseIgnoreList == << <<<<"out">>>> >>

SupportedExtensions == { "ts", "json" }

ModelDependencySources == {}

ExistsSync(p) == p \in Range(DiskFiles) \/ p \in DiskDirs

IsDir(p) == p \in DiskDirs

IsAutoGeneratedFile(p) == p \in AutoGeneratedFiles

Basename(p) == IF p = <<>> THEN <<>> ELSE Last(p)

----------------------------------------------------------------------------
(* Ignore rules, glob and the template (DSL) expander *)

\* ignore().add(list).ignores(p): an entry ignores the path it names and
\* everything below it
Ignores(ignoreList, p) == \E i \in DOMAIN ignoreList : IsPrefix(ignoreList[i], p)

IgnoreFilter(ignoreList, paths) == SelectSeq(paths, LAMBDA p : ~Ignores(ignoreList, p))

\* glob of a specifier without wildcards: the path itself when it is on disk
Glob(p) == IF ExistsSync(p) THEN <<p>> ELSE <<>>

\* glob(dir/**, {nodir: true}): the files below dir
GlobTree(dir) == SelectSeq(DiskFiles, LAMBDA f : IsPrefix(dir, f) /\ f # dir)

IsPlaceholder(part) == part \in {PARENT, FILE_NAME}

\* mainFile.match(REGEX_DSL_PATTERN)
IsDsl(t) == \E i \in DOMAIN t : \E j \in DOMAIN t[i] : IsPlaceholder(t[i][j])

\* calculateFileInfo: the parent directory name and the file name without its
\* extension
CalculateFileInfo(p) ==
  [ PARENT    |-> IF Len(p) >= 2 THEN p[Len(p) - 1] ELSE <<".">>,
    FILE_NAME |-> IF Len(Last(p)) >= 2 THEN Front(Last(p)) ELSE Last(p) ]

FormatPart(part, info) ==
  IF part = PARENT THEN info.PARENT
  ELSE IF part = FILE_NAME THEN info.FILE_NAME
  ELSE <<part>>

FormatSegment(seg, info) == Flatten([j \in DOMAIN seg |-> FormatPart(seg[j], info)])

\* format(dsl, fileInfo)
Format(t, info) == [i \in DOMAIN t |-> FormatSegment(t[i], info)]

\* getFilesAccordingToDsl: every template against every file, globbed,
\* filtered by the ignore rules, existing, flattened and made unique
GetFilesAccordingToDsl(files, dsls, ignoreList) ==
  LET match(dsl, file) ==
        SelectSeq(IgnoreFilter(ignoreList, Glob(Format(dsl, CalculateFileInfo(file)))),
                  ExistsSync)
      perDsl(dsl) == Flatten([k \in DOMAIN files |-> match(dsl, files[k])])
  IN Uniq(Flatten([d \in DOMAIN dsls |-> perDsl(dsls[d])]))

----------------------------------------------------------------------------
(* Component identifiers *)

\* BitId.getValidBitId(box, name)
GetValidBitId(box, name) == [scope |-> "", box |-> box, name |-> name, version |-> ""]

\* BitId.parse(idStr, false): an id string carries box, name and version
ParseId(idStr) == [scope |-> "", box |-> idStr.box, name |-> idStr.name,
                   version |-> idStr.version]

\* currentId.includes(VERSION_DELIMITER)
HasVersionDelimiter(idStr) == idStr.version # ""

SameIgnoringScopeAndVersion(a, b) == a.box = b.box /\ a.name = b.name

----------------------------------------------------------------------------
(* The bit map (persistent mapping store) *)

NoRecord == [id |-> NoId, origin |-> "", rootDir |-> NoPath, wrapDir |-> NoPath,
             files |-> <<>>, mainFile |-> NoPath, trackDir |-> NoPath]

TrackedFile(p, isTest) == [relativePath |-> p, test |-> isTest, name |-> Basename(p)]

RelativePaths(files) == [i \in DOMAIN files |-> files[i].relativePath]

PathSet(files) == {files[i].relativePath : i \in DOMAIN files}

IndexOfId(map, id) ==
  IF \E i \in DOMAIN map : map[i].id = id
  THEN CHOOSE i \in DOMAIN map : map[i].id = id
  ELSE 0

\* the first index at which a sequence of booleans is TRUE, 0 when there is none
FirstIndex(flags) ==
  IF \E i \in DOMAIN flags : flags[i]
  THEN CHOOSE i \in DOMAIN flags : flags[i] /\ \A j \in 1..(i - 1) : ~flags[j]
  ELSE 0

\* bitMap.getExistingBitId(idStr, false)
GetExistingBitId(map, idStr) ==
  LET i == FirstIndex([n \in DOMAIN map |-> SameIgnoringScopeAndVersion(map[n].id, idStr)])
  IN IF i = 0 THEN NoId ELSE map[i].id

\* bitMap.getComponent(id)
GetComponent(map, id) ==
  LET i == IndexOfId(map, id) IN IF i = 0 THEN NoRecord ELSE map[i]

\* bitMap.getComponentIfExist(id, {ignoreScopeAndVersion: true})
GetComponentIfExist(map, id) ==
  LET i == FirstIndex([n \in DOMAIN map |-> SameIgnoringScopeAndVersion(map[n].id, id)])
  IN IF i = 0 THEN NoRecord ELSE map[i]

\* bitMap.getComponentIdByPath(relativePath)
GetComponentIdByPath(map, p) ==
  LET i == FirstIndex([n \in DOMAIN map |-> p \in PathSet(map[n].files)])
  IN IF i = 0 THEN NoId ELSE map[i].id

\* bitMap.getAllComponents(origin)
GetAllComponents(map, origin) == SelectSeq(map, LAMBDA r : r.origin = origin)

\* files of a record extended by new files: one entry per relativePath
MergeFiles(old, new) ==
  old \o SelectSeq(new, LAMBDA f : f.relativePath \notin PathSet(old))

\* bitMap.addFilesToComponent({componentId, files}): append to the record
AddFilesToComponent(map, id, files) ==
  LET Write(i) ==
        IF i = 0
        THEN [err |-> "GeneralError", map |-> map, files |-> <<>>]
        ELSE [err |-> "",
              map |-> [map EXCEPT ![i].files = MergeFiles(map[i].files, files)],
              files |-> MergeFiles(map[i].files, files)]
  IN Write(IndexOfId(map, id))

\* bitMap.addComponent({componentId, files, mainFile, trackDir, origin, override}):
\* create the record, replace it (override) or append to it; the main file
\* must be one of the files of the record
AddComponent(map, id, files, mainFile, trackDir, origin, override) ==
  LET Write(i, rec) ==
        IF mainFile # NoPath /\ mainFile \notin PathSet(rec.files)
        THEN [err |-> "MissingMainFile", map |-> map, files |-> <<>>]
        ELSE [err |-> "",
              map |-> IF i = 0 THEN Append(map, rec) ELSE [map EXCEPT ![i] = rec],
              files |-> rec.files]
      Record(i) ==
        IF i = 0 \/ override
        THEN [id |-> id, origin |-> origin, rootDir |-> NoPath, wrapDir |-> NoPath,
              files |-> files, mainFile |-> mainFile, trackDir |-> trackDir]
        ELSE [map[i] EXCEPT !.files = MergeFiles(map[i].files, files)]
      At(i) == Write(i, Record(i))
  IN At(IndexOfId(map, id))

----------------------------------------------------------------------------
(* Discovery: building the candidates of one invocation.  Every operator    *)
(* that can throw returns a record whose field err names the error ("" when *)
(* it returns normally).                                                    *)

\* getIgnoreList: the project's ignore list and the dist directories of the
\* imported components
GetIgnoreList(map) ==
  LET DistDirs(imported) ==
        [i \in DOMAIN imported |-> imported[i].rootDir \o <<DEFAULT_DIST_DIRNAME>>]
  IN BaseIgnoreList \o DistDirs(GetAllComponents(map, IMPORTED))

\* getMissingTestFiles: the test specifiers that are plain paths and not on disk
GetMissingTestFiles(tests) == SelectSeq(tests, LAMBDA t : ~IsDsl(t) /\ ~ExistsSync(t))

\* validatePaths: the stats object, one key per path
ValidatePaths(fileArray) ==
  IF \E i \in DOMAIN fileArray : ~ExistsSync(fileArray[i])
  THEN [err |-> "PathsNotExist", stats |-> <<>>]
  ELSE [err |-> "", stats |-> Uniq(fileArray)]

\* _getIdAccordingToExistingComponent
\* a resolution that parses the name it is given and never takes the stored id
GetIdIgnoringExistingComponent(map, currentId, propsId) == [err |-> "", id |-> ParseId(currentId)]

\* a resolution without the check of the version
GetIdAcceptingAnyVersion(map, currentId, propsId) == IF GetExistingBitId(map, currentId) = NoId THEN [err |-> "", id |-> ParseId(currentId)] ELSE IF GetComponent(map, GetExistingBitId(map, currentId)).origin = NESTED THEN [err |-> "GeneralError", id |-> NoId] ELSE [err |-> "", id |-> GetExistingBitId(map, currentId)]

\* a resolution that checks the version before the origin of the stored record
GetIdCheckingVersionFirst(map, currentId, propsId) == IF HasVersionDelimiter(currentId) /\ (GetExistingBitId(map, currentId) = NoId \/ GetExistingBitId(map, currentId).version # propsId.version) THEN [err |-> "VersionShouldBeRemoved", id |-> NoId] ELSE GetIdAcceptingAnyVersion(map, currentId, propsId)

GetIdAccordingToExistingComponent(map, currentId, propsId) ==
  LET Decide(existingComponentId) ==
        IF existingComponentId # NoId
           /\ GetComponent(map, existingComponentId).origin = NESTED
        THEN [err |-> "GeneralError", id |-> NoId]
        ELSE IF HasVersionDelimiter(currentId)
                /\ ( existingComponentId = NoId
                     \/ existingComponentId.version = ""
                     \/ existingComponentId.version # propsId.version )
        THEN [err |-> "VersionShouldBeRemoved", id |-> NoId]
        ELSE [err |-> "", id |-> IF existingComponentId # NoId THEN existingComponentId
                                   ELSE ParseId(currentId)]
  IN Decide(GetExistingBitId(map, currentId))

\* one iteration of the forEach of _addMainFileToFiles, on the state s of the
\* loop (the files, the main file so far and the error thrown, if any)
MainFileDslStep(s, file, ignoreList) ==
  LET With(generatedFile) ==
        IF s.err # "" THEN s
        ELSE IF generatedFile \in PathSet(s.files)
        THEN [s EXCEPT !.mainFile = generatedFile]
        ELSE IF ExistsSync(generatedFile)
        THEN IF Ignores(ignoreList, generatedFile)
             THEN [s EXCEPT !.err = "ExcludedMainFile"]
             ELSE [s EXCEPT !.files = Append(s.files, TrackedFile(generatedFile, FALSE)),
                            !.mainFile = generatedFile]
        ELSE s
  IN With(Format(s.mainFile, CalculateFileInfo(file.relativePath)))

\* the forEach of _addMainFileToFiles for a template main specifier
RECURSIVE MainFileDslLoop(_, _, _, _)
MainFileDslLoop(files0, k, main, ignoreList) ==
  IF k = 0 THEN [err |-> "", files |-> files0, mainFile |-> main]
  ELSE MainFileDslStep(MainFileDslLoop(files0, k - 1, main, ignoreList), files0[k],
                       ignoreList)

\* the rest of _addMainFileToFiles, after the forEach
CheckMainFile(dsl, ignoreList) ==
  IF dsl.err # "" THEN dsl
  ELSE IF dsl.mainFile = NoPath THEN dsl
  ELSE IF ExistsSync(dsl.mainFile)
  THEN IF Ignores(ignoreList, dsl.mainFile) THEN [dsl EXCEPT !.err = "ExcludedMainFile"]
       ELSE IF IsDir(dsl.mainFile) THEN [dsl EXCEPT !.err = "MainFileIsDir"]
       ELSE IF dsl.mainFile \in PathSet(dsl.files) THEN dsl
       ELSE [dsl EXCEPT !.files = Append(dsl.files, TrackedFile(dsl.mainFile, FALSE))]
  ELSE dsl

\* _addMainFileToFiles: the files with the main file added, and the resolved
\* main file
AddMainFileToFiles(files0, main, ignoreList) ==
  CheckMainFile(IF main # NoPath /\ IsDsl(main)
                THEN MainFileDslLoop(files0, Len(files0), main, ignoreList)
                ELSE [err |-> "", files |-> files0, mainFile |-> main],
                ignoreList)

\* a union in which, of two entries with the same path, the second is kept
UnionByPathKeepingSecond(a, b) == SelectSeq(a, LAMBDA f : f.relativePath \notin PathSet(b)) \o b

\* unionBy(a, b, 'relativePath')
UnionByPath(a, b) == a \o SelectSeq(b, LAMBDA f : f.relativePath \notin PathSet(a))

\* _mergeTestFilesWithFiles
MergeTestFilesWithFiles(files, tests, ignoreList) ==
  LET Merge(testFiles) ==
        IF \E i \in DOMAIN testFiles : IsDir(testFiles[i])
        THEN [err |-> "TestIsDirectory", files |-> <<>>]
        ELSE [err |-> "",
              files |-> UnionByPath([i \in DOMAIN testFiles |-> TrackedFile(testFiles[i], TRUE)],
                                    files)]
  IN Merge(IF tests # <<>>
           THEN GetFilesAccordingToDsl(RelativePaths(files), tests, ignoreList)
           ELSE <<>>)

NoCandidate == [err |-> "", componentId |-> NoId, files |-> <<>>, mainFile |-> NoPath,
                trackDir |-> NoPath]

Thrown(e) == [NoCandidate EXCEPT !.err = e]

\* the directory whose name becomes the namespace of a path-derived id
ParentDirName(componentPath) ==
  IF Len(componentPath) >= 2 THEN componentPath[Len(componentPath) - 1]
  ELSE ConsumerDirName

\* an id concluded from the base name of the directory alone
IdFromDirPathBaseName(componentPath, pr) == GetValidBitId(<<>>, Last(componentPath))

\* the id concluded from a directory path
IdFromDirPath(componentPath, pr) ==
  GetValidBitId(IF pr.skipNamespace THEN <<>>
                ELSE IF pr.namespace # <<>> THEN pr.namespace
                ELSE ParentDirName(componentPath),
                Last(componentPath))

\* the id concluded from a file path
IdFromFilePath(componentPath, pr) ==
  GetValidBitId(IF pr.skipNamespace THEN <<>>
                ELSE IF pr.namespace # <<>> THEN pr.namespace
                ELSE ParentDirName(componentPath),
                CalculateFileInfo(componentPath).FILE_NAME)


\* a variant of TrackDirOf that takes the condition on the number of paths
\* the wrong way round
TrackDirOfSeveralPaths(componentPath, nPaths, pr) ==
  IF nPaths > 1 /\ Len(pr.exclude) = 0 /\ pr.origin = AUTHORED
  THEN componentPath
  ELSE NoPath

\* trackDir of a directory branch of addOneComponent
TrackDirOf(componentPath, nPaths, pr) ==
  IF nPaths = 1 /\ Len(pr.exclude) = 0 /\ pr.origin = AUTHORED
  THEN componentPath
  ELSE NoPath

\* the id of a branch: the one already resolved, or the one concluded from the path
ResolveBranchId(map, finalBitId, idFromPath, pr) ==
  IF finalBitId # NoId THEN [err |-> "", id |-> finalBitId]
  ELSE GetIdAccordingToExistingComponent(map, idFromPath, pr.id)

\* one branch of addOneComponent for a directory; finalBitId is NoId when it is
\* not resolved yet
AddOneDir(map, componentPath, nPaths, finalBitId, pr, ignoreList) ==
  LET Finish(withMain, resolved) ==
        IF withMain.err # "" THEN Thrown(withMain.err)
        ELSE IF resolved.err # "" THEN Thrown(resolved.err)
        ELSE [err |-> "", componentId |-> resolved.id, files |-> withMain.files,
              mainFile |-> withMain.mainFile,
              trackDir |-> TrackDirOf(componentPath, nPaths, pr)]
      Merged(merged) ==
        IF merged.err # "" THEN Thrown(merged.err)
        ELSE Finish(AddMainFileToFiles(merged.files, pr.main, ignoreList),
                    ResolveBranchId(map, finalBitId, IdFromDirPath(componentPath, pr), pr))
      Matched(filteredMatches) ==
        IF filteredMatches = <<>> THEN Thrown("EmptyDirectory")
        ELSE Merged(MergeTestFilesWithFiles(
                      [i \in DOMAIN filteredMatches |-> TrackedFile(filteredMatches[i], FALSE)],
                      pr.tests, ignoreList))
  IN Matched(IgnoreFilter(ignoreList, GlobTree(componentPath)))

\* one branch of addOneComponent for a file
AddOneFile(map, componentPath, finalBitId, pr, ignoreList) ==
  LET Finish(resolved, withMain) ==
        IF withMain.err # "" THEN Thrown(withMain.err)
        ELSE [err |-> "", componentId |-> resolved.id, files |-> withMain.files,
              mainFile |-> withMain.mainFile, trackDir |-> NoPath]
      Merged(resolved, merged) ==
        IF merged.err # "" THEN Thrown(merged.err)
        ELSE Finish(resolved, AddMainFileToFiles(merged.files, pr.main, ignoreList))
      Resolved(resolved) ==
        IF resolved.err # "" THEN Thrown(resolved.err)
        ELSE Merged(resolved,
                    MergeTestFilesWithFiles(<<TrackedFile(componentPath, FALSE)>>, pr.tests,
                                            ignoreList))
  IN Resolved(ResolveBranchId(map, finalBitId, IdFromFilePath(componentPath, pr), pr))

\* the paths the exclude specifiers resolve to against the files of the candidates
ResolvedExcludedFiles(componentsWithFiles, pr, ignoreList) ==
  GetFilesAccordingToDsl(
    Flatten([i \in DOMAIN componentsWithFiles |-> RelativePaths(componentsWithFiles[i].files)]),
    pr.exclude, ignoreList)


\* a variant of RemoveExcludedFrom that only removes the matched files, also
\* when the main file is one of them
RemoveExcludedKeepingOthers(c, resolvedExcludedFiles) ==
  [c EXCEPT !.files = SelectSeq(c.files,
              LAMBDA f : f.relativePath \notin Range(resolvedExcludedFiles))]

\* the forEach of removeExcludedFiles for one candidate
RemoveExcludedFrom(c, resolvedExcludedFiles) ==
  IF c.mainFile # NoPath /\ c.mainFile \in Range(resolvedExcludedFiles)
  THEN [c EXCEPT !.files = <<>>]
  ELSE [c EXCEPT !.files = SelectSeq(c.files,
                     LAMBDA f : f.relativePath \notin Range(resolvedExcludedFiles))]

\* removeExcludedFiles
RemoveExcludedFiles(componentsWithFiles, pr, ignoreList) ==
  LET Remove(resolvedExcludedFiles) ==
        [i \in DOMAIN componentsWithFiles |->
           RemoveExcludedFrom(componentsWithFiles[i], resolvedExcludedFiles)]
  IN Remove(ResolvedExcludedFiles(componentsWithFiles, pr, ignoreList))

\* groupby(files, 'relativePath') and assignwith(..., (val1, val2) => val1 || val2)
\* a grouping that keeps, for each path, the first of its entries as it is
GroupFilesByPathKeepingFirst(files) == [k \in DOMAIN Uniq(RelativePaths(files)) |-> files[CHOOSE i \in DOMAIN files : files[i].relativePath = Uniq(RelativePaths(files))[k] /\ \A j \in 1..(i - 1) : files[j].relativePath # files[i].relativePath]]

GroupFilesByPath(files) ==
  LET Group(keys) ==
        [k \in DOMAIN keys |->
           [relativePath |-> keys[k],
            test |-> \E i \in DOMAIN files : files[i].relativePath = keys[k] /\ files[i].test,
            name |-> Basename(keys[k])]]
  IN Group(Uniq(RelativePaths(files)))

\* one more branch of addOneComponent, on the state s of the branches so far
\* (the id resolved so far, the results, the error thrown, if any)
AddOneBranch(map, s, componentPath, nPaths, pr, ignoreList) ==
  LET Join(r) ==
        IF r.err # "" THEN [s EXCEPT !.err = r.err]
        ELSE [s EXCEPT !.finalBitId = r.componentId, !.out = Append(s.out, r)]
  IN IF s.err # "" THEN s
     ELSE Join(IF IsDir(componentPath)
               THEN AddOneDir(map, componentPath, nPaths, s.finalBitId, pr, ignoreList)
               ELSE AddOneFile(map, componentPath, s.finalBitId, pr, ignoreList))

\* a builder that resolves no id before its branches start
FirstBitIdUnresolved(map, pr) == [err |-> "", finalBitId |-> NoId, out |-> <<>>]

\* the id of addOneComponent before its branches start
FirstBitId(map, pr) ==
  LET Start(first) == [err |-> first.err, finalBitId |-> first.id, out |-> <<>>]
  IN Start(IF pr.id # NoId
           THEN GetIdAccordingToExistingComponent(map, pr.id, pr.id)
           ELSE [err |-> "", id |-> NoId])

\* the branches of addOneComponent for the first k paths
RECURSIVE AddOneBranches(_, _, _, _, _)
AddOneBranches(map, stats, k, pr, ignoreList) ==
  IF k = 0 THEN FirstBitId(map, pr)
  ELSE AddOneBranch(map, AddOneBranches(map, stats, k - 1, pr, ignoreList), stats[k],
                    Len(stats), pr, ignoreList)

\* the end of addOneComponent: one candidate out of the branches that kept files
MergeBranches(finalBitId, nonEmpty) ==
  IF Len(nonEmpty) = 0 THEN [NoCandidate EXCEPT !.componentId = finalBitId]
  ELSE IF Len(nonEmpty) = 1 THEN nonEmpty[1]
  ELSE [err |-> "", componentId |-> finalBitId,
        files |-> GroupFilesByPath(Flatten([i \in DOMAIN nonEmpty |-> nonEmpty[i].files])),
        mainFile |-> nonEmpty[1].mainFile,
        trackDir |-> nonEmpty[1].trackDir]

\* addOneComponent
AddOneComponent(map, stats, pr, ignoreList) ==
  LET Finish(all) ==
        IF all.err # "" THEN Thrown(all.err)
        ELSE MergeBranches(all.finalBitId,
               SelectSeq(IF pr.exclude # <<>>
                         THEN RemoveExcludedFiles(all.out, pr, ignoreList)
                         ELSE all.out,
                         LAMBDA c : c.files # <<>>))
  IN Finish(AddOneBranches(map, stats, Len(stats), pr, ignoreList))

\* a batch that rethrows every error of addOneComponent, EmptyDirectory included
TryAddingMultipleRethrowing(map, stats, pr, ignoreList) == [err |-> IF \E k \in DOMAIN stats : AddOneComponent(map, <<stats[k]>>, pr, ignoreList).err # "" THEN AddOneComponent(map, <<stats[CHOOSE k \in DOMAIN stats : AddOneComponent(map, <<stats[k]>>, pr, ignoreList).err # ""]>>, pr, ignoreList).err ELSE "", added |-> SelectSeq([k \in DOMAIN stats |-> AddOneComponent(map, <<stats[k]>>, pr, ignoreList)], LAMBDA c : c.err = ""), emptyDirectory |-> <<>>]

\* _tryAddingMultiple: one addOneComponent per path; EmptyDirectory becomes a
\* warning, any other error is thrown
TryAddingMultiple(map, stats, pr, ignoreList) ==
  LET Collect(results) ==
        [err |-> IF \A k \in DOMAIN results : results[k].err \in {"", "EmptyDirectory"}
                 THEN ""
                 ELSE results[CHOOSE k \in DOMAIN results :
                                /\ results[k].err \notin {"", "EmptyDirectory"}
                                /\ \A j \in 1..(k - 1) :
                                     results[j].err \in {"", "EmptyDirectory"}].err,
         added |-> SelectSeq(results, LAMBDA c : c.err = ""),
         emptyDirectory |->
           LET idx == SelectSeq([k \in DOMAIN stats |-> k],
                                LAMBDA k : results[k].err = "EmptyDirectory")
           IN [n \in DOMAIN idx |-> stats[idx[n]]]]
  IN Collect([k \in DOMAIN stats |-> AddOneComponent(map, <<stats[k]>>, pr, ignoreList)])

\* a batch whose identifiers are never compared
HasDuplicateIdsUnchecked(addComponents) == FALSE

\* validateNoDuplicateIds
HasDuplicateIds(addComponents) ==
  \E i, j \in DOMAIN addComponents :
     i # j /\ addComponents[i].componentId = addComponents[j].componentId

NoBuild == [err |-> "", multiple |-> FALSE, added |-> <<>>, emptyDirectory |-> <<>>,
            ignoreList |-> <<>>, stats |-> <<>>]

\* a batch that hands its candidates to the reconciliation whether or not two
\* of them have the same id
BuildMultipleUnvalidated(map, stats, pr, ignoreList) == LET Validate(multi, multiStats) == [err |-> IF multi.err # "" THEN multi.err ELSE IF HasDuplicateIds(multi.added) THEN "DuplicateIds" ELSE "", multiple |-> TRUE, added |-> IF multi.err # "" THEN <<>> ELSE multi.added, emptyDirectory |-> multi.emptyDirectory, ignoreList |-> ignoreList, stats |-> multiStats] Try(multiStats) == Validate(TryAddingMultiple(map, multiStats, pr, ignoreList), multiStats) IN Try(Without(stats, Range(IF pr.tests # <<>> THEN GetFilesAccordingToDsl(stats, pr.tests, ignoreList) ELSE <<>>)))

\* addMultipleComponents up to the reconciliation
BuildMultiple(map, stats, pr, ignoreList) ==
  LET Validate(multi, multiStats) ==
        [err |-> IF multi.err # "" THEN multi.err
                 ELSE IF HasDuplicateIds(multi.added) THEN "DuplicateIds"
                 ELSE "",
         multiple |-> TRUE,
         added |-> IF multi.err # "" \/ HasDuplicateIds(multi.added) THEN <<>>
                   ELSE multi.added,
         emptyDirectory |-> multi.emptyDirectory,
         ignoreList |-> ignoreList,
         stats |-> multiStats]
      Try(multiStats) ==
        Validate(TryAddingMultiple(map, multiStats, pr, ignoreList), multiStats)
  IN Try(Without(stats, Range(IF pr.tests # <<>>
                              THEN GetFilesAccordingToDsl(stats, pr.tests, ignoreList)
                              ELSE <<>>)))

\* the single-component branch of add() up to the reconciliation
BuildSingle(map, stats, pr, ignoreList) ==
  LET Wrap(single) ==
        [err |-> single.err, multiple |-> FALSE,
         added |-> IF single.err # "" THEN <<>> ELSE <<single>>,
         emptyDirectory |-> <<>>, ignoreList |-> ignoreList, stats |-> stats]
  IN Wrap(AddOneComponent(map, stats, pr, ignoreList))

\* the part of add() that precedes the reconciliation: the candidates in
\* input order, or the error thrown
BuildCandidates(map, pr) ==
  LET Dispatch(validated, ignoreList) ==
        IF validated.err # ""
        THEN [NoBuild EXCEPT !.err = validated.err, !.ignoreList = ignoreList]
        ELSE IF Len(validated.stats) > 1 /\ pr.id = NoId
        THEN BuildMultiple(map, validated.stats, pr, ignoreList)
        ELSE BuildSingle(map, validated.stats, pr, ignoreList)
      Filtered(withoutGitIgnore, withGitIgnore, ignoreList) ==
        Dispatch(IF pr.tests # <<>> /\ pr.id # NoId /\ withoutGitIgnore = <<>>
                 THEN ValidatePaths(Flatten([i \in DOMAIN pr.tests |-> Glob(pr.tests[i])]))
                 ELSE IF withoutGitIgnore = <<>> THEN [err |-> "PathsNotExist", stats |-> <<>>]
                 ELSE IF withGitIgnore # <<>> THEN ValidatePaths(withGitIgnore)
                 ELSE [err |-> "NoFiles", stats |-> <<>>],
                 ignoreList)
      Ignoring(withoutGitIgnore, ignoreList) ==
        Filtered(withoutGitIgnore, IgnoreFilter(ignoreList, withoutGitIgnore), ignoreList)
      Resolved(withoutGitIgnore, ignoreList0) ==
        Ignoring(withoutGitIgnore,
                 ignoreList0 \o GetFilesAccordingToDsl(withoutGitIgnore, pr.exclude, ignoreList0))
  IN IF GetMissingTestFiles(pr.tests) # <<>> THEN [NoBuild EXCEPT !.err = "PathsNotExist"]
     ELSE Resolved(Flatten([i \in DOMAIN pr.componentPaths |-> Glob(pr.componentPaths[i])]),
                   GetIgnoreList(map))

\* the branches of one addOneComponent call as removeExcludedFiles sees them:
\* for each, its id and main file, its files before and after the exclusion, the
\* paths the exclude specifiers resolved to (in add() and in this call), and
\* whether it is the only branch of the call
BranchesOfCall(map, stats, pr, b) ==
  LET View(out, ex) ==
        [n \in DOMAIN out |->
           [componentId |-> out[n].componentId,
            mainFile |-> out[n].mainFile,
            before |-> out[n].files,
            after |-> IF pr.exclude # <<>>
                      THEN RemoveExcludedFiles(out, pr, b.ignoreList)[n].files
                      ELSE out[n].files,
            excluded |-> ex \cup (Range(b.ignoreList) \ Range(GetIgnoreList(map))),
            alone |-> Len(out) = 1]]
      Of(all) ==
        IF all.err # "" THEN <<>>
        ELSE View(all.out, Range(ResolvedExcludedFiles(all.out, pr, b.ignoreList)))
  IN Of(AddOneBranches(map, stats, Len(stats), pr, b.ignoreList))

\* the branches of all the addOneComponent calls of an invocation whose build is b
BranchesOfBuild(map, pr, b) ==
  IF b.err # "" THEN <<>>
  ELSE IF b.multiple
  THEN Flatten([k \in DOMAIN b.stats |-> BranchesOfCall(map, <<b.stats[k]>>, pr, b)])
  ELSE BranchesOfCall(map, b.stats, pr, b)

----------------------------------------------------------------------------
(* Reconciliation of one candidate file with the bit map *)

\* _isPackageJsonOnRootDir
IsPackageJsonOnRootDir(p, componentMap) == componentMap.rootDir \o <<PACKAGE_JSON>> = p

\* _isOutsideOfWrapDir
IsOutsideOfWrapDir(p, componentMap) ==
  IF componentMap.wrapDir = NoPath THEN FALSE
  ELSE ~IsPrefix(componentMap.rootDir \o componentMap.wrapDir, p)

\* isSupportedExtension
IsSupportedExtension(p) == Last(Last(p)) \in SupportedExtensions

\* _isGeneratedForUnsupportedFiles (the component is found in the model)
IsGeneratedForUnsupportedFiles(p, componentMap) ==
  IF IsSupportedExtension(p) THEN FALSE
  ELSE p \in {componentMap.rootDir \o src : src \in ModelDependencySources}

Outcome(kind, err, owner, keepTrackDir) ==
  [kind |-> kind, err |-> err, owner |-> owner, keepTrackDir |-> keepTrackDir]

\* a variant of ImportedFileOutcome that warns about a file of another
\* component instead of throwing
ImportedFileOutcomeWarning(pr, idOfFileIsDifferent, foundComponentFromBitMap, p) == IF idOfFileIsDifferent THEN Outcome("dropped", "", foundComponentFromBitMap.id, TRUE) ELSE Outcome("accepted", "", NoId, FALSE)

\* the branch of the files.map callback for an imported component
ImportedFileOutcome(pr, idOfFileIsDifferent, foundComponentFromBitMap, p) ==
  IF pr.id = NoId
  THEN Outcome("threw", "MissingComponentIdForImportedComponent", NoId, TRUE)
  ELSE IF idOfFileIsDifferent
  THEN Outcome("threw", "IncorrectIdForImportedComponent", NoId, TRUE)
  ELSE IF foundComponentFromBitMap.rootDir = NoPath
          \/ foundComponentFromBitMap.origin # IMPORTED
  THEN Outcome("threw", "Error", NoId, TRUE)
  ELSE IF IsPackageJsonOnRootDir(p, foundComponentFromBitMap)
  THEN Outcome("dropped", "", NoId, TRUE)
  ELSE IF IsOutsideOfWrapDir(p, foundComponentFromBitMap)
  THEN Outcome("dropped", "", NoId, TRUE)
  ELSE IF IsGeneratedForUnsupportedFiles(p, foundComponentFromBitMap)
  THEN Outcome("dropped", "", NoId, TRUE)
  ELSE Outcome("accepted", "", NoId, FALSE)


\* a variant of OwnershipOutcome without the branch for a file that another,
\* not imported, component has
OwnershipOutcomeIgnoringOwner(map, pr, parsedBitId, foundComponentFromBitMap, p, existingIdOfFile) ==
  IF foundComponentFromBitMap.origin = IMPORTED
     \/ ( existingIdOfFile # NoId
          /\ GetComponent(map, existingIdOfFile).origin = IMPORTED )
  THEN ImportedFileOutcome(pr, existingIdOfFile # NoId /\ existingIdOfFile # parsedBitId,
                           foundComponentFromBitMap, p)
  ELSE Outcome("accepted", "", NoId, TRUE)

\* the ownership decision of the files.map callback, given the owner of the file
OwnershipOutcome(map, pr, parsedBitId, foundComponentFromBitMap, p, existingIdOfFile) ==
  IF foundComponentFromBitMap.origin = IMPORTED
     \/ ( existingIdOfFile # NoId
          /\ GetComponent(map, existingIdOfFile).origin = IMPORTED )
  THEN ImportedFileOutcome(pr, existingIdOfFile # NoId /\ existingIdOfFile # parsedBitId,
                           foundComponentFromBitMap, p)
  ELSE IF existingIdOfFile # NoId /\ existingIdOfFile # parsedBitId
  THEN Outcome("dropped", "", existingIdOfFile, TRUE)
  ELSE Outcome("accepted", "", NoId, TRUE)

\* the callback of files.map in addOrUpdateComponentInBitMap, for one file:
\* whether the file is accepted, dropped (with the owner to warn about, if
\* any), or an error is thrown
CheckFileOutcome(map, pr, parsedBitId, foundComponentFromBitMap, p) ==
  IF IsAutoGeneratedFile(p) THEN Outcome("dropped", "", NoId, TRUE)
  ELSE OwnershipOutcome(map, pr, parsedBitId, foundComponentFromBitMap, p,
                        GetComponentIdByPath(map, p))

\* this.warnings.alreadyUsed[owner].push(path)
PushAlreadyUsed(alreadyUsed, owner, p) ==
  [o \in DOMAIN alreadyUsed \cup {owner} |->
     IF o = owner
     THEN (IF o \in DOMAIN alreadyUsed THEN Append(alreadyUsed[o], p) ELSE <<p>>)
     ELSE alreadyUsed[o]]


\* a variant of AddToBitMap that answers with the files it was given and
\* leaves the bit map as it is
AddToBitMapUnsaved(map, pr, componentId, files, mainFile, trackDir) ==
  [err |-> "", map |-> map, files |-> files]

\* addToBitMap
AddToBitMap(map, pr, componentId, files, mainFile, trackDir) ==
  IF pr.trackDirFeature
  THEN AddFilesToComponent(map, componentId, files)
  ELSE AddComponent(map, componentId, files, mainFile, trackDir, AUTHORED, pr.override)

\* the files of candidate i that its checks accepted, in order
AcceptedFiles(i) ==
  LET Pick(idx) == [n \in DOMAIN idx |-> added[i].files[idx[n]]]
  IN Pick(SelectSeq([k \in DOMAIN added[i].files |-> k],
                    LAMBDA k : fileState[i][k] = "accepted"))

Settled(cs) == \A i \in DOMAIN cs : cs[i] # "checking"

\* what the caller gets once every candidate has settled and none has thrown
\* a fatal error: _addMultipleToBitMap throws the collected missing main files
\* a batch that forgets the MissingMainFile errors it caught
FinalResultForgetting(missing) == "ok"

FinalResult(missing) ==
  IF missing # <<>> THEN "MissingMainFileMultipleComponents" ELSE "ok"

IsFailure(r) == r \notin {"none", "pending", "ok"}

----------------------------------------------------------------------------
(* Inputs and initial bit maps *)

D(name) == <<<<name>>>>

IdStr(box, name, version) == [scope |-> "", box |-> box, name |-> name, version |-> version]

Props(paths, id, main, tests, exclude, override, origin) ==
  [componentPaths |-> paths, id |-> id, main |-> main, namespace |-> <<>>,
   skipNamespace |-> FALSE, tests |-> tests, exclude |-> exclude, override |-> override,
   trackDirFeature |-> FALSE, origin |-> origin]

SharedMain == P(<<"shared">>, <<"main", "ts">>)
IndexTemplate == <<<<PARENT>>, <<"index", "ts">>>>

\* an imported component, as `import` leaves it in the bit map
ImportedRecord ==
  [id |-> [scope |-> "sc", box |-> <<"ws">>, name |-> <<"imp">>, version |-> "0.0.1"],
   origin |-> IMPORTED, rootDir |-> D("imp"), wrapDir |-> NoPath,
   files |-> <<TrackedFile(P(<<"imp">>, <<"x", "ts">>), FALSE)>>,
   mainFile |-> P(<<"imp">>, <<"x", "ts">>), trackDir |-> NoPath]

InitMaps == { <<>>, <<ImportedRecord>> }

FooDir == D("foo")
BarDir == D("bar")
ImpDir == D("imp")
FooA == P(<<"foo">>, <<"a", "ts">>)
BarId == IdStr(<<"ws">>, <<"bar">>, "")

Plain(paths) == Props(paths, NoId, NoPath, <<>>, <<>>, FALSE, AUTHORED)

\* the invocations of the model: single and multiple paths, with and without
\* an explicit id, a main file shared by the candidates, override, excludes
Inputs ==
  { Plain(<<FooDir>>),
    Plain(<<BarDir>>),
    Plain(<<FooA>>),
    Plain(<<FooDir, BarDir>>),
    Plain(<<FooDir, ImpDir>>),
    Plain(<<D("tmp")>>),
    Props(<<FooDir>>, NoId, SharedMain, <<>>, <<>>, FALSE, AUTHORED),
    Props(<<BarDir>>, NoId, SharedMain, <<>>, <<>>, FALSE, AUTHORED),
    Props(<<FooDir, BarDir>>, NoId, SharedMain, <<>>, <<>>, FALSE, AUTHORED),
    Props(<<FooDir, BarDir, ImpDir>>, NoId, SharedMain, <<>>, <<>>, FALSE, AUTHORED),
    Props(<<FooDir>>, BarId, NoPath, <<>>, <<>>, FALSE, AUTHORED),
    Props(<<FooDir, BarDir>>, BarId, NoPath, <<>>, <<>>, FALSE, AUTHORED),
    Props(<<FooDir, BarDir>>, NoId, NoPath, <<>>, <<>>, TRUE, AUTHORED),
    Props(<<BarDir>>, NoId, NoPath, <<>>, <<>>, TRUE, AUTHORED),
    Props(<<BarDir>>, NoId, IndexTemplate, <<>>, <<IndexTemplate>>, FALSE, AUTHORED),
    Props(<<FooDir, BarDir>>, NoId, IndexTemplate, <<>>, <<IndexTemplate>>, FALSE, AUTHORED),
    Props(<<FooDir>>, NoId, NoPath, <<>>, <<P(<<"foo">>, <<"a", "spec", "ts">>)>>, FALSE,
          AUTHORED),
    Props(<<BarDir>>, NoId, P(<<"bar">>, <<"index", "ts">>), <<>>,
          <<P(<<"bar">>, <<"index", "ts">>)>>, FALSE, AUTHORED),
    Props(<<FooDir>>, NoId, NoPath, <<>>, <<>>, FALSE, IMPORTED),
    [Plain(<<FooDir>>) EXCEPT !.trackDirFeature = TRUE] }

----------------------------------------------------------------------------
(* The state machine *)

NoPrev == [valid |-> FALSE, props |-> <<>>, result |-> "none", bitMap |-> <<>>,
           ids |-> <<>>, committed |-> {}, startMap |-> <<>>]

NoWarnings == [alreadyUsed |-> <<>>, emptyDirectory |-> <<>>]

Init ==
  /\ bitMap \in InitMaps
  /\ props = <<>>
  /\ multiple = FALSE
  /\ result = "none"
  /\ added = <<>>
  /\ found = <<>>
  /\ fileState = <<>>
  /\ compState = <<>>
  /\ trackDirs = <<>>
  /\ warnings = NoWarnings
  /\ addedComponents = <<>>
  /\ missingMainFiles = <<>>
  /\ branches = <<>>
  /\ calls = 0
  /\ startMap = <<>>
  /\ prev = NoPrev

\* nothing of the invocation is still running
Quiescent ==
  /\ Settled(compState)
  /\ \A i \in DOMAIN fileState : \A k \in DOMAIN fileState[i] : fileState[i][k] # "pending"

\* the <<id, path>> pairs the invocation wrote for its candidates
CommittedPairs ==
  UNION { {<<added[i].componentId, f.relativePath>> : f \in Range(AcceptedFiles(i))} :
          i \in {j \in DOMAIN added : compState[j] = "committed"} }

Summary ==
  [valid |-> TRUE, props |-> props, result |-> result, bitMap |-> bitMap,
   ids |-> [i \in DOMAIN added |-> added[i].componentId],
   committed |-> CommittedPairs, startMap |-> startMap]

\* add() up to the point where every reconciliation has been started:
\* the candidates are built, excluded and checked for duplicate ids, and
\* addOrUpdateComponentInBitMap has run for each of them up to its first await
StartAdd(pr) ==
  \E b \in {BuildCandidates(bitMap, pr)} :
  \E cs \in {[i \in DOMAIN b.added |->
                IF b.added[i].files = <<>> THEN "skipped" ELSE "checking"]} :
     /\ calls < MaxCalls
     /\ result # "pending"
     /\ Quiescent
     /\ calls' = calls + 1
     /\ props' = pr
     /\ startMap' = bitMap
     /\ prev' = IF calls = 0 THEN NoPrev ELSE Summary
     /\ multiple' = b.multiple
     /\ branches' = BranchesOfBuild(bitMap, pr, b)
     /\ added' = b.added
     /\ found' = [i \in DOMAIN b.added |-> GetComponentIfExist(bitMap, b.added[i].componentId)]
     /\ fileState' = [i \in DOMAIN b.added |-> [k \in DOMAIN b.added[i].files |-> "pending"]]
     /\ compState' = cs
     /\ trackDirs' = [i \in DOMAIN b.added |-> b.added[i].trackDir]
     /\ warnings' = [alreadyUsed |-> <<>>, emptyDirectory |-> b.emptyDirectory]
     /\ addedComponents' = <<>>
     /\ missingMainFiles' = <<>>
     /\ result' = IF b.err # "" THEN b.err
                  ELSE IF Settled(cs) THEN "ok" ELSE "pending"
     /\ UNCHANGED bitMap

\* the callback of files.map for file k of candidate i, after isAutoGeneratedFile
\* has answered
CheckFile(i, k) ==
  /\ i \in DOMAIN added
  /\ k \in DOMAIN added[i].files
  /\ compState[i] \in {"checking", "failed"}
  /\ fileState[i][k] = "pending"
  /\ \E o \in {CheckFileOutcome(bitMap, props, added[i].componentId, found[i],
                                added[i].files[k].relativePath)} :
       /\ fileState' = [fileState EXCEPT ![i][k] = o.kind]
       /\ compState' = IF o.kind = "threw" THEN [compState EXCEPT ![i] = "failed"]
                       ELSE compState
       /\ result' = IF o.kind = "threw" /\ result = "pending" THEN o.err ELSE result
       /\ warnings' = IF o.owner # NoId
                      THEN [warnings EXCEPT !.alreadyUsed =
                              PushAlreadyUsed(warnings.alreadyUsed, o.owner,
                                              added[i].files[k].relativePath)]
                      ELSE warnings
       /\ trackDirs' = IF o.keepTrackDir THEN trackDirs
                       ELSE [trackDirs EXCEPT ![i] = NoPath]
  /\ UNCHANGED <<bitMap, props, multiple, added, found, addedComponents,
                 missingMainFiles, branches, calls, startMap, prev>>

\* the rest of addOrUpdateComponentInBitMap for candidate i, once all its files
\* are checked, and what its caller does with the outcome
Commit(i) ==
  /\ i \in DOMAIN added
  /\ compState[i] = "checking"
  /\ \A k \in DOMAIN fileState[i] : fileState[i][k] \in {"accepted", "dropped"}
  /\ \E files \in {AcceptedFiles(i)} :
     \E r \in {AddToBitMap(bitMap, props, added[i].componentId, files, added[i].mainFile,
                           trackDirs[i])} :
     \E outcome \in {IF files = <<>> THEN "empty"
                     ELSE IF r.err = "" THEN "committed"
                     ELSE IF r.err = "MissingMainFile" /\ multiple THEN "missingMain"
                     ELSE "failed"} :
       /\ compState' = [compState EXCEPT ![i] = outcome]
       /\ missingMainFiles' = IF outcome = "missingMain"
                              THEN Append(missingMainFiles, added[i].componentId)
                              ELSE missingMainFiles
       /\ bitMap' = IF outcome = "committed" THEN r.map ELSE bitMap
       /\ addedComponents' =
            IF outcome = "committed"
            THEN Append(addedComponents, [id |-> added[i].componentId, files |-> r.files])
            ELSE IF outcome = "empty" /\ ~multiple
            THEN Append(addedComponents, [id |-> added[i].componentId, files |-> <<>>])
            ELSE addedComponents
       /\ result' = IF result # "pending" THEN result
                    ELSE IF outcome = "failed" THEN r.err
                    ELSE IF Settled(compState') THEN FinalResult(missingMainFiles')
                    ELSE result
  /\ UNCHANGED <<props, multiple, added, found, fileState, trackDirs, warnings,
                 branches, calls, startMap, prev>>

Next ==
  \/ \E pr \in Inputs : StartAdd(pr)
  \/ \E i \in DOMAIN added : \E k \in DOMAIN added[i].files : CheckFile(i, k)
  \/ \E i \in DOMAIN added : Commit(i)

Spec == Init /\ [][Next]_vars

----------------------------------------------------------------------------
(* Invocations that exercise identity resolution, the failures of discovery *)
(* and the test templates, against bit maps with records of every origin    *)

SpecTemplate == <<<<PARENT>>, <<FILE_NAME, "spec", "ts">>>>
ParentTemplate == <<<<PARENT>>>>

\* a dependency of an imported component, as `import` leaves it in the bit map
NestedRecord ==
  [id |-> [scope |-> "sc", box |-> <<"ws">>, name |-> <<"foo">>, version |-> "0.0.1"],
   origin |-> NESTED, rootDir |-> D("dep"), wrapDir |-> NoPath,
   files |-> <<>>, mainFile |-> NoPath, trackDir |-> NoPath]

\* an authored component after it was tagged and exported
ExportedRecord ==
  [id |-> [scope |-> "sc", box |-> <<"ws">>, name |-> <<"bar">>, version |-> "0.0.2"],
   origin |-> AUTHORED, rootDir |-> NoPath, wrapDir |-> NoPath,
   files |-> <<TrackedFile(P(<<"bar">>, <<"b", "ts">>), FALSE)>>,
   mainFile |-> P(<<"bar">>, <<"b", "ts">>), trackDir |-> NoPath]

ResolveMaps == { <<>>, <<ImportedRecord, NestedRecord, ExportedRecord>> }

BarFile == <<<<"bar", "ts">>>>
NoSuchDir == D("zzz")
OutDir == D("out")
TmpDir == D("tmp")
ImpX == P(<<"imp">>, <<"x", "ts">>)
FooSpec == P(<<"foo">>, <<"a", "spec", "ts">>)
OutFile == P(<<"out">>, <<"o", "ts">>)
FooId == IdStr(<<"ws">>, <<"foo">>, "")
BarIndex == P(<<"bar">>, <<"index", "ts">>)

ResolveInputs ==
  { Plain(<<BarDir, BarFile>>),
    Plain(<<FooDir, TmpDir, BarDir>>),
    Plain(<<FooDir, BarDir>>),
    Plain(<<BarDir>>),
    Plain(<<FooDir>>),
    Plain(<<ImpX>>),
    Plain(<<ImpDir>>),
    Plain(<<NoSuchDir>>),
    Plain(<<OutDir>>),
    Props(<<BarDir>>, IdStr(<<"ws">>, <<"bar">>, "0.0.2"), NoPath, <<>>, <<>>, FALSE, AUTHORED),
    Props(<<BarDir>>, IdStr(<<"ws">>, <<"bar">>, "0.0.1"), NoPath, <<>>, <<>>, FALSE, AUTHORED),
    Props(<<BarDir>>, IdStr(<<"ws">>, <<"foo">>, "0.0.3"), NoPath, <<>>, <<>>, FALSE, AUTHORED),
    Props(<<BarDir, ImpDir>>, BarId, NoPath, <<>>, <<>>, FALSE, AUTHORED),
    Props(<<FooDir, BarDir>>, NoId, IndexTemplate, <<>>, <<>>, FALSE, AUTHORED),
    Props(<<FooDir>>, NoId, IndexTemplate, <<>>, <<>>, FALSE, AUTHORED),
    Props(<<FooDir>>, NoId, P(<<"foo">>, <<"nope", "ts">>), <<>>, <<>>, FALSE, AUTHORED),
    Props(<<FooDir, BarDir>>, NoId, P(<<"foo">>, <<"nope", "ts">>), <<>>, <<>>, FALSE, AUTHORED),
    Props(<<NoSuchDir>>, FooId, NoPath, <<FooSpec>>, <<>>, FALSE, AUTHORED),
    Props(<<NoSuchDir>>, NoId, NoPath, <<FooSpec>>, <<>>, FALSE, AUTHORED),
    Props(<<FooDir>>, NoId, NoPath, <<SpecTemplate, OutFile>>, <<>>, FALSE, AUTHORED),
    Props(<<BarDir>>, NoId, NoPath, <<SpecTemplate>>, <<>>, FALSE, AUTHORED),
    Props(<<BarDir>>, NoId, NoPath, <<>>, <<>>, TRUE, IMPORTED),
    Props(<<FooSpec, FooDir>>, FooId, NoPath, <<SpecTemplate>>, <<>>, FALSE, AUTHORED),
    Plain(<<TmpDir>>),
    Props(<<BarDir>>, NoId, NoPath, <<ParentTemplate>>, <<>>, FALSE, AUTHORED),
    Props(<<BarDir>>, NoId, OutFile, <<>>, <<>>, FALSE, AUTHORED),
    Props(<<BarDir>>, NoId, IndexTemplate, <<>>, <<BarIndex>>, FALSE, AUTHORED),
    Props(<<BarDir>>, NoId, FooDir, <<>>, <<>>, FALSE, AUTHORED),
    Props(<<FooDir>>, NoId, ParentTemplate, <<>>, <<>>, FALSE, AUTHORED),
    Props(<<BarDir>>, NoId, IndexTemplate, <<>>, <<>>, FALSE, AUTHORED),
    Props(<<BarDir>>, NoId, SharedMain, <<>>, <<>>, FALSE, AUTHORED),
    Props(<<FooA>>, NoId, SpecTemplate, <<>>, <<>>, FALSE, AUTHORED),
    Props(<<BarIndex>>, BarId, NoPath, <<>>, <<>>, TRUE, AUTHORED),
    [Props(<<BarIndex>>, BarId, NoPath, <<>>, <<>>, TRUE, AUTHORED)
       EXCEPT !.trackDirFeature = TRUE] }

InitResolve ==
  /\ bitMap \in ResolveMaps
  /\ props = <<>>
  /\ multiple = FALSE
  /\ result = "none"
  /\ added = <<>>
  /\ found = <<>>
  /\ fileState = <<>>
  /\ compState = <<>>
  /\ trackDirs = <<>>
  /\ warnings = NoWarnings
  /\ addedComponents = <<>>
  /\ missingMainFiles = <<>>
  /\ branches = <<>>
  /\ calls = 0
  /\ startMap = <<>>
  /\ prev = NoPrev

NextResolve ==
  \/ \E pr \in ResolveInputs : StartAdd(pr)
  \/ \E i \in DOMAIN added : \E k \in DOMAIN added[i].files : CheckFile(i, k)
  \/ \E i \in DOMAIN added : Commit(i)

SpecResolve == InitResolve /\ [][NextResolve]_vars

\* every callback and every continuation that can run is run by the event loop
SpecResolveFair ==
  /\ SpecResolve
  /\ WF_vars(\E i \in DOMAIN added : \E k \in DOMAIN added[i].files : CheckFile(i, k))
  /\ WF_vars(\E i \in DOMAIN added : Commit(i))

----------------------------------------------------------------------------
(* The reconciliations of a batch taken one after the other *)

\* every candidate before i has settled
InOrder(i) == \A j \in DOMAIN added : j < i => compState[j] # "checking"

NextInOrder ==
  \/ \E pr \in Inputs : StartAdd(pr)
  \/ \E i \in DOMAIN added : \E k \in DOMAIN added[i].files : InOrder(i) /\ CheckFile(i, k)
  \/ \E i \in DOMAIN added : InOrder(i) /\ Commit(i)

\* add() as it would run if _addMultipleToBitMap awaited each candidate in turn
SpecInOrder == Init /\ [][NextInOrder]_vars

----------------------------------------------------------------------------
(* Properties *)

Candidates == DOMAIN added

\* some check or the commit of candidate i has been taken
Started(i) ==
  \/ \E k \in DOMAIN fileState[i] : fileState[i][k] # "pending"
  \/ compState[i] \in {"committed", "empty", "missingMain", "failed"}

\* the records of the bit map that list path p among their files
OwnersOf(map, p) == {n \in DOMAIN map : p \in PathSet(map[n].files)}

AllPaths == Range(DiskFiles)

\* the invocation has returned and none of its reconciliations is still running
Returned == calls > 0 /\ result # "pending" /\ Quiescent

\* some alreadyUsed warning of the invocation says that path p, which the
\* candidate with identifier id has, is used by another component
WarnedAgainst(id, p) ==
  \E o \in DOMAIN warnings.alreadyUsed : o # id /\ p \in Range(warnings.alreadyUsed[o])

\* how many entries of the files of a record have path p
Occurrences(files, p) ==
  Cardinality({n \in DOMAIN files : files[n].relativePath = p})

NoDuplicateEntries(map) ==
  \A n \in DOMAIN map : \A p \in AllPaths : Occurrences(map[n].files, p) <= 1

\* the invocation repeats the previous one, which ended with result r
RerunOf(r) ==
  /\ prev.valid
  /\ prev.props = props
  /\ prev.result = r

\* the check of file k of candidate i is taken in this step
Checks(i, k) ==
  /\ added' = added
  /\ fileState[i][k] = "pending"
  /\ fileState'[i][k] # "pending"

\* C1: no relativePath is listed in the files of two different persisted
\* records, after any sequence of add invocations and under every interleaving
\* of the reconciliations of a batch
C1_OnePathOneRecord ==
  \A p \in AllPaths : Cardinality(OwnersOf(bitMap, p)) <= 1

\* C2: in a batch, no ownership check and no store write of a later candidate
\* happens before the accept/commit step of the preceding candidate has completed
C2_CandidateByCandidate ==
  \A i, j \in Candidates :
     (i < j /\ Started(j)) => compState[i] # "checking"

\* C3: when the call has returned successfully, every file of every
\* addedComponents entry is in the persisted record of the entry's identifier
C3_AddedFilesPersisted ==
  result = "ok" =>
    \A n \in DOMAIN addedComponents :
       Range(addedComponents[n].files)
         \subseteq Range(GetComponent(bitMap, addedComponents[n].id).files)

C3_Witness ==
  /\ result = "ok"
  /\ multiple
  /\ Len(addedComponents) = 2
  /\ \A n \in DOMAIN addedComponents : Len(addedComponents[n].files) >= 2

\* C4: a second add with identical inputs and override=false, after a first
\* that succeeded: the store equals the store after the first call, no path
\* appears twice in a record, the identifiers resolved are the same, and no
\* alreadyUsed warning is raised against a file the first call committed
C4_Idempotent ==
  ( RerunOf("ok") /\ ~props.override /\ Returned )
  => /\ result = "ok"
     /\ bitMap = prev.bitMap
     /\ NoDuplicateEntries(bitMap)
     /\ [i \in DOMAIN added |-> added[i].componentId] = prev.ids
     /\ \A c \in prev.committed : ~WarnedAgainst(c[1], c[2])

\* C5, amended: when the file F of candidate B is checked while a different
\* record A has it, neither A's record nor B's is Imported and F is not
\* auto-generated, the check throws nothing, drops F from B's files, lists F
\* under warnings.alreadyUsed[A] and writes nothing to the store, so that F is
\* still owned by A and not by B when the check is done. The call as a whole
\* can fail for another reason
C5_AlreadyUsed ==
  [][ \A i \in Candidates : \A k \in DOMAIN added[i].files :
        LET Step(F, A, B) ==
              ( /\ Checks(i, k)
                /\ A # NoId
                /\ A # B
                /\ GetComponent(bitMap, A).origin # IMPORTED
                /\ found[i].origin # IMPORTED
                /\ ~IsAutoGeneratedFile(F) )
              => /\ fileState'[i][k] = "dropped"
                 /\ compState' = compState
                 /\ result' = result
                 /\ bitMap' = bitMap
                 /\ A \in DOMAIN warnings'.alreadyUsed
                 /\ F \in Range(warnings'.alreadyUsed[A])
                 /\ warnings'.alreadyUsed # warnings.alreadyUsed
        IN Step(added[i].files[k].relativePath,
                GetComponentIdByPath(bitMap, added[i].files[k].relativePath),
                added[i].componentId) ]_vars

C5_Witness ==
  /\ Returned
  /\ Len(added) = 1
  /\ result = "ok"
  /\ compState[1] = "committed"
  /\ \E k \in DOMAIN added[1].files :
        /\ fileState[1][k] = "dropped"
        /\ WarnedAgainst(added[1].componentId, added[1].files[k].relativePath)
        /\ OwnersOf(startMap, added[1].files[k].relativePath) # {}

\* C5 as stated: F is persisted under A when the call starts, the call has a
\* candidate B # A with F among its files, neither A's record nor B's is
\* Imported: the call succeeds, F is not in B's result, F is warned about
\* under A, and afterwards A's record has F and B's has not
C5_AlreadyUsedCall ==
  Returned =>
    \A i \in Candidates : \A k \in DOMAIN added[i].files :
       LET Holds(F, A, B) ==
             ( /\ A # NoId
               /\ A # B
               /\ GetComponent(startMap, A).origin # IMPORTED
               /\ found[i].origin # IMPORTED )
             => /\ result = "ok"
                /\ \A n \in DOMAIN addedComponents :
                      addedComponents[n].id = B
                      => F \notin PathSet(addedComponents[n].files)
                /\ A \in DOMAIN warnings.alreadyUsed
                /\ F \in Range(warnings.alreadyUsed[A])
                /\ F \in PathSet(GetComponent(bitMap, A).files)
                /\ F \notin PathSet(GetComponent(bitMap, B).files)
       IN Holds(added[i].files[k].relativePath,
                GetComponentIdByPath(startMap, added[i].files[k].relativePath),
                added[i].componentId)

\* C6: in a batch, once the call has failed towards the caller, no store write
\* for any candidate of the batch occurs afterwards
C6_NoWriteAfterFailure ==
  [][(multiple /\ IsFailure(result)) => bitMap' = bitMap]_vars

\* the records of the candidates a failed batch committed hold the committed files
NoRollback ==
  ( multiple /\ IsFailure(result) )
  => \A c \in CommittedPairs : c[2] \in PathSet(GetComponent(bitMap, c[1]).files)

\* a re-run of a failed batch accepts the files the batch committed, keeps one
\* entry for each, and raises no alreadyUsed warning against them
RerunAccepts ==
  \A r \in {"MissingComponentIdForImportedComponent", "MissingMainFileMultipleComponents"} :
     ( RerunOf(r) /\ multiple /\ prev.committed # {} /\ Returned )
     => \A c \in prev.committed :
           /\ Occurrences(GetComponent(bitMap, c[1]).files, c[2]) = 1
           /\ ~WarnedAgainst(c[1], c[2])
           /\ \E i \in Candidates : \E k \in DOMAIN added[i].files :
                 /\ added[i].componentId = c[1]
                 /\ added[i].files[k].relativePath = c[2]
                 /\ fileState[i][k] = "accepted"

\* C7: a batch failed after some of its candidates were committed: the
\* records of those candidates hold the committed files (no rollback), and a
\* re-run of the same call accepts these files again, without duplicating
\* them in the store and without alreadyUsed warnings for them
C7_NoRollbackAndRerun == NoRollback /\ RerunAccepts

\* C8: with more than one input path, or a non-empty exclude list, or an origin
\* other than Authored, every candidate has trackDir unset
C8_TrackDirUnset ==
  \A i \in Candidates :
     ( Len(props.componentPaths) > 1
       \/ props.exclude # <<>>
       \/ props.origin # AUTHORED )
     => added[i].trackDir = NoPath

\* C9: exactly one input path that is a non-empty directory, no exclude
\* specifiers and origin Authored: the call builds one candidate, and its
\* trackDir is the directory's project-relative path
C9_TrackDirSet ==
  ( /\ calls > 0
    /\ Len(props.componentPaths) = 1
    /\ IsDir(props.componentPaths[1])
    /\ props.exclude = <<>>
    /\ props.origin = AUTHORED )
  => /\ result \in {"pending", "ok"} => Len(added) = 1
     /\ added # <<>> => ( /\ Len(added) = 1
                          /\ added[1].trackDir = props.componentPaths[1] )

C9_Witness ==
  /\ result = "ok"
  /\ Len(props.componentPaths) = 1
  /\ props.main # NoPath
  /\ Len(added) = 1
  /\ added[1].trackDir = FooDir
  /\ trackDirs[1] = FooDir
  /\ compState[1] = "committed"

\* C10: when an exclude specifier resolves to the resolved main file of a
\* candidate, the file list of that candidate is empty after the exclusion,
\* and nothing is reconciled or committed for it
C10_ExcludedMainVoids ==
  \A n \in DOMAIN branches :
     ( branches[n].mainFile # NoPath /\ branches[n].mainFile \in branches[n].excluded )
     => /\ branches[n].after = <<>>
        /\ branches[n].alone =>
             \A i \in Candidates :
                added[i].componentId = branches[n].componentId
                => /\ added[i].files = <<>>
                   /\ compState[i] = "skipped"
                   /\ \A m \in DOMAIN addedComponents :
                         addedComponents[m].id # added[i].componentId
                   /\ GetComponent(bitMap, added[i].componentId)
                        = GetComponent(startMap, added[i].componentId)

C10_Witness ==
  /\ Returned
  /\ \E n \in DOMAIN branches :
       /\ branches[n].mainFile # NoPath
       /\ branches[n].mainFile \in branches[n].excluded
       /\ Len(branches[n].before) >= 2
       /\ branches[n].alone
       /\ \E i \in Candidates :
             /\ added[i].componentId = branches[n].componentId
             /\ compState[i] = "skipped"

----------------------------------------------------------------------------
(* Identity, discovery failures and test templates *)

\* the candidates _tryAddingMultiple built for the invocation, before the
\* validation of their identifiers
BuiltOf(b) == TryAddingMultiple(startMap, b.stats, props, b.ignoreList)

BuiltBatch ==
  IF calls > 0 /\ BuildCandidates(startMap, props).multiple
  THEN BuiltOf(BuildCandidates(startMap, props))
  ELSE [err |-> "", added |-> <<>>, emptyDirectory |-> <<>>]

\* C11: a multi-path invocation without identifier in which two candidates
\* were built with the same identifier fails with DuplicateIds before any
\* candidate is reconciled or committed; the candidates of a batch that reaches
\* the reconciliation have pairwise distinct identifiers
C11_DuplicateIds ==
  /\ (/\ BuiltBatch.err = ""
      /\ \E i, j \in DOMAIN BuiltBatch.added :
            i # j /\ BuiltBatch.added[i].componentId = BuiltBatch.added[j].componentId)
       => /\ result = "DuplicateIds"
          /\ added = <<>>
          /\ addedComponents = <<>>
          /\ warnings.alreadyUsed = <<>>
          /\ bitMap = startMap
  /\ multiple =>
       \A i, j \in DOMAIN added : i # j => added[i].componentId # added[j].componentId

\* the directory bar and the file bar.ts were given together
C11_Witness ==
  /\ calls > 0
  /\ Len(BuiltBatch.added) = 2
  /\ BuiltBatch.added[1].componentId = BuiltBatch.added[2].componentId
  /\ result = "DuplicateIds"

\* the paths of the batch that are directories without any file that is not
\* ignored, in input order
EmptyPaths(stats, ignoreList) ==
  SelectSeq(stats, LAMBDA p : /\ IsDir(p)
                              /\ \A n \in DOMAIN DiskFiles :
                                   (IsPrefix(p, DiskFiles[n]) /\ DiskFiles[n] # p)
                                     => Ignores(ignoreList, DiskFiles[n]))

EmptyDirectoryDowngraded(b) ==
  /\ result # "EmptyDirectory"
  /\ (added # <<>> \/ result = "ok") =>
       /\ warnings.emptyDirectory = EmptyPaths(b.stats, b.ignoreList)
       /\ Len(added) = Len(b.stats) - Len(EmptyPaths(b.stats, b.ignoreList))
       /\ \A i \in DOMAIN added : added[i].files # <<>>
       /\ \A e \in DOMAIN addedComponents : addedComponents[e].files # <<>>
       /\ (Returned /\ \A i \in DOMAIN added : compState[i] = "committed") =>
            /\ result = "ok"
            /\ Len(addedComponents) = Len(b.stats) - Len(EmptyPaths(b.stats, b.ignoreList))

\* C12: in a multi-path invocation a path that raises EmptyDirectory is listed
\* once in warnings.emptyDirectory and gets no candidate and no addedComponents
\* entry; the invocation does not fail for it, and when every remaining
\* candidate is committed it succeeds with one addedComponents entry for each
\* path that is not empty
C12_EmptyDirectoryWarning ==
  (calls > 0 /\ multiple) => EmptyDirectoryDowngraded(BuildCandidates(startMap, props))

\* three paths, the second an empty directory: two entries and one warning
C12_Witness ==
  /\ Returned
  /\ multiple
  /\ props.componentPaths = <<FooDir, TmpDir, BarDir>>
  /\ result = "ok"
  /\ Len(addedComponents) = 2
  /\ warnings.emptyDirectory = <<TmpDir>>

\* the identifier of the first record of map whose namespace and name are those
\* of id, NoId when there is none
StoredIdOf(map, id) ==
  IF \E n \in DOMAIN map : map[n].id.box = id.box /\ map[n].id.name = id.name
  THEN map[CHOOSE n \in DOMAIN map :
             /\ map[n].id.box = id.box /\ map[n].id.name = id.name
             /\ \A m \in 1..(n - 1) :
                  ~(map[m].id.box = id.box /\ map[m].id.name = id.name)].id
  ELSE NoId

OneRecordPerName(map) ==
  \A m, n \in DOMAIN map :
     (map[m].id.box = map[n].id.box /\ map[m].id.name = map[n].id.name) => m = n

\* C13: when the bit map holds a record whose namespace and name are those of
\* the candidate, the candidate and its commit carry the stored identifier,
\* scope and version included, and the bit map never holds two records with
\* the same namespace and name
C13_StoredIdWins ==
  /\ calls > 0 =>
       /\ \A i \in DOMAIN added :
            StoredIdOf(startMap, added[i].componentId) # NoId
              => added[i].componentId = StoredIdOf(startMap, added[i].componentId)
       /\ props.id # NoId /\ StoredIdOf(startMap, props.id) # NoId
            => \A i \in DOMAIN added :
                 added[i].componentId = StoredIdOf(startMap, props.id)
       /\ \A e \in DOMAIN addedComponents :
            /\ \E i \in DOMAIN added : addedComponents[e].id = added[i].componentId
            /\ compState[CHOOSE i \in DOMAIN added :
                           addedComponents[e].id = added[i].componentId] = "committed"
                 => IndexOfId(bitMap, addedComponents[e].id) # 0
  /\ OneRecordPerName(bitMap)

\* the directory bar is added without identifier, twice, to a bit map that
\* holds sc/ws/bar@0.0.2: both commits go to that record
C13_Witness ==
  /\ Returned
  /\ calls = 2
  /\ props.id = NoId
  /\ prev.props = props
  /\ prev.committed # {}
  /\ Len(added) = 1
  /\ added[1].componentId = ExportedRecord.id
  /\ compState[1] = "committed"
  /\ Len(bitMap) = Len(startMap)

\* the invocation reached the identity resolution: its paths and tests resolved
ReachedResolution == calls > 0 /\ result \notin {"PathsNotExist", "NoFiles"}

\* the name given by the caller has a version, and no record with that
\* namespace and name has exactly that version
VersionNotStored ==
  /\ calls > 0
  /\ props.id # NoId
  /\ props.id.version # ""
  /\ \/ StoredIdOf(startMap, props.id) = NoId
     \/ StoredIdOf(startMap, props.id).version = ""
     \/ StoredIdOf(startMap, props.id).version # props.id.version

MatchedNested ==
  /\ calls > 0
  /\ props.id # NoId
  /\ StoredIdOf(startMap, props.id) # NoId
  /\ GetComponent(startMap, StoredIdOf(startMap, props.id)).origin = NESTED

NestedMatch(id) ==
  /\ StoredIdOf(startMap, id) # NoId
  /\ GetComponent(startMap, StoredIdOf(startMap, id)).origin = NESTED

\* no identifier was given and the name derived from one of the paths is that
\* of a Nested record
PathDerivedNested ==
  /\ calls > 0
  /\ props.id = NoId
  /\ \E k \in DOMAIN props.componentPaths :
       /\ ExistsSync(props.componentPaths[k])
       /\ NestedMatch(IF IsDir(props.componentPaths[k])
                      THEN IdFromDirPath(props.componentPaths[k], props)
                      ELSE IdFromFilePath(props.componentPaths[k], props))

\* a directory branch derives the name after it has listed the directory, merged
\* the test files and resolved the main file
DerivationReached ==
  result \notin {"EmptyDirectory", "TestIsDirectory", "ExcludedMainFile", "MainFileIsDir"}

\* C15: when the name given by the caller, or the name derived from a path, is
\* that of a Nested record, the invocation fails with the error of the origin
\* check, also when the given name has a version the record does not have; no
\* candidate is built, the Nested record stays as it was, and no Authored record
\* with its namespace and name appears
C15_NestedRejected ==
  /\ ((MatchedNested \/ (PathDerivedNested /\ DerivationReached)) /\ ReachedResolution)
       => /\ result = "GeneralError"
          /\ added = <<>>
          /\ bitMap = startMap
  /\ calls > 0 =>
       /\ \A i \in DOMAIN added : ~NestedMatch(added[i].componentId)
       /\ \A n \in DOMAIN startMap :
            startMap[n].origin = NESTED => (n \in DOMAIN bitMap /\ bitMap[n] = startMap[n])
       /\ \A m \in DOMAIN bitMap :
            bitMap[m].origin # NESTED => ~NestedMatch(bitMap[m].id)

\* ws/foo@0.0.3 is given while the bit map holds the dependency sc/ws/foo@0.0.1
C15_Witness ==
  /\ MatchedNested
  /\ props.id.version = "0.0.3"
  /\ StoredIdOf(startMap, props.id).version = "0.0.1"
  /\ result = "GeneralError"

\* file F, which candidate B has, is tracked in map by the record A, another
\* one, and A's record or the record found for B is Imported
ImportedConflict(map, i, F, A, B) ==
  /\ A # NoId
  /\ A # B
  /\ ~IsAutoGeneratedFile(F)
  /\ \/ GetComponent(map, A).origin = IMPORTED
     \/ found[i].origin = IMPORTED

ImportedError == IF props.id = NoId THEN "MissingComponentIdForImportedComponent"
                 ELSE "IncorrectIdForImportedComponent"

ImportedConflictStep(i, k, F, A, B) ==
  (Checks(i, k) /\ ImportedConflict(bitMap, i, F, A, B))
  => /\ fileState'[i][k] = "threw"
     /\ compState'[i] = "failed"
     /\ result = "pending" => result' = ImportedError
     /\ IsFailure(result')
     /\ warnings' = warnings
     /\ bitMap' = bitMap

ImportedConflictCall(i, F, A, B) ==
  (Returned /\ ImportedConflict(startMap, i, F, A, B))
  => /\ result = ImportedError
     /\ compState[i] = "failed"
     /\ Len(added) = 1 => ~WarnedAgainst(B, F)
     /\ F \in PathSet(GetComponent(bitMap, A).files)
     /\ F \notin PathSet(GetComponent(bitMap, B).files)

\* C16: when the check of file F of candidate B finds F in the record of
\* another component A, and A's record or B's existing record is Imported, the
\* check throws MissingComponentIdForImportedComponent if the invocation has no
\* identifier and IncorrectIdForImportedComponent otherwise; the invocation
\* fails with that error, no alreadyUsed warning is raised for F, and F stays
\* in A's record and out of B's
C16_ImportedConflict ==
  /\ [][ \A i \in Candidates : \A k \in DOMAIN added[i].files :
           ImportedConflictStep(i, k, added[i].files[k].relativePath,
                                GetComponentIdByPath(bitMap, added[i].files[k].relativePath),
                                added[i].componentId) ]_vars
  /\ [](\A i \in Candidates : \A k \in DOMAIN added[i].files :
           ImportedConflictCall(i, added[i].files[k].relativePath,
                                GetComponentIdByPath(startMap, added[i].files[k].relativePath),
                                added[i].componentId))

\* bar and imp are added as ws/bar while imp/x.ts belongs to the imported
\* component sc/ws/imp
C16_Witness ==
  /\ Returned
  /\ props.id # NoId
  /\ result = "IncorrectIdForImportedComponent"
  /\ \E i \in Candidates : \E k \in DOMAIN added[i].files :
       /\ fileState[i][k] = "threw"
       /\ ImportedConflict(startMap, i, added[i].files[k].relativePath,
                           GetComponentIdByPath(startMap, added[i].files[k].relativePath),
                           added[i].componentId)
       /\ GetComponentIdByPath(bitMap, added[i].files[k].relativePath) = ImportedRecord.id

MissingMainIds == {added[i].componentId : i \in {j \in DOMAIN added : compState[j] = "missingMain"}}

FatalFailure == \E j \in DOMAIN added : compState[j] = "failed"

MissingMainCollected ==
  multiple =>
    /\ result = "MissingMainFileMultipleComponents" =>
         /\ Settled(compState)
         /\ MissingMainIds # {}
         /\ Range(missingMainFiles) = MissingMainIds
         /\ Len(missingMainFiles) = Cardinality(MissingMainIds)
    /\ (MissingMainIds # {} /\ ~FatalFailure) =>
         /\ Range(missingMainFiles) = MissingMainIds
         /\ result = IF Settled(compState) THEN "MissingMainFileMultipleComponents"
                     ELSE "pending"
    /\ \A i \in DOMAIN added :
         compState[i] = "missingMain" => GetComponent(bitMap, added[i].componentId).files
                                          = GetComponent(startMap, added[i].componentId).files

\* C17: in a batch, the MissingMainFile thrown by the commit of one candidate
\* is collected and the invocation goes on: as long as no candidate fails
\* fatally the call stays pending until every candidate was attempted, every
\* other candidate is eventually checked and committed or set aside, and the
\* call then fails, once, with MissingMainFileMultipleComponents for exactly
\* the candidates that raised MissingMainFile
C17_MissingMainCollected ==
  /\ []MissingMainCollected
  /\ [][(result = "MissingMainFileMultipleComponents" /\ calls' = calls)
          => (result' = result /\ missingMainFiles' = missingMainFiles)]_vars
  /\ (multiple /\ MissingMainIds # {})
       ~> (/\ Quiescent
           /\ \/ result = "MissingMainFileMultipleComponents"
              \/ FatalFailure)

\* foo and bar are added with the main file {PARENT}/index.ts: foo has no
\* index.ts, bar has and is committed
C17_Witness ==
  /\ Returned
  /\ multiple
  /\ result = "MissingMainFileMultipleComponents"
  /\ Len(missingMainFiles) = 1
  /\ \E j \in DOMAIN added :
       /\ compState[j] = "committed"
       /\ IndexOfId(bitMap, added[j].componentId) # 0
       /\ IndexOfId(startMap, added[j].componentId) = 0

\* C18: every candidate built from one path, with no exclusion applied, whose
\* mainFile is set has that mainFile among its files, also when the main path
\* that was given does not exist on disk
C18_MainFileAmongFiles ==
  (calls > 0 /\ props.exclude = <<>>) =>
    \A i \in DOMAIN added :
       added[i].mainFile # NoPath => added[i].mainFile \in PathSet(added[i].files)

\* none of the path specifiers of the invocation is on disk
NothingResolves ==
  /\ calls > 0
  /\ \A k \in DOMAIN props.componentPaths : ~ExistsSync(props.componentPaths[k])

\* some path specifier is on disk, and all that are on disk are ignored
AllIgnored ==
  /\ calls > 0
  /\ \E k \in DOMAIN props.componentPaths : ExistsSync(props.componentPaths[k])
  /\ \A k \in DOMAIN props.componentPaths :
       ExistsSync(props.componentPaths[k])
         => Ignores(GetIgnoreList(startMap), props.componentPaths[k])

\* C19: an invocation whose path specifiers resolve to nothing on disk fails
\* with PathsNotExist whatever its other inputs are, tests and identifier
\* included; one whose resolved paths are all ignored fails with NoFiles; in
\* both cases no candidate is built and nothing is written
C19_PathsNotExist ==
  /\ NothingResolves => (result = "PathsNotExist" /\ added = <<>> /\ bitMap = startMap)
  /\ (AllIgnored /\ GetMissingTestFiles(props.tests) = <<>>)
       => (result = "NoFiles" /\ added = <<>> /\ bitMap = startMap)

\* the files the builder finds for the path before the test templates are
\* merged in
ImplementationFiles(componentPath, ignoreList) ==
  IF IsDir(componentPath)
  THEN Range(IgnoreFilter(ignoreList, GlobTree(componentPath)))
  ELSE {componentPath}

\* the expansions of the test templates against the files that are on disk and
\* not ignored
TestExpansions(tests, files, ignoreList) ==
  {q \in {Format(tests[t], CalculateFileInfo(f)) : t \in DOMAIN tests, f \in files} :
     ExistsSync(q) /\ ~Ignores(ignoreList, q)}

TestsMerged(c, impl, expansions) ==
  /\ \A n \in DOMAIN c.files : c.files[n].test <=> c.files[n].relativePath \in expansions
  /\ PathSet(c.files) = impl \cup expansions
  /\ \A q \in PathSet(c.files) : Occurrences(c.files, q) = 1

\* C20: for a candidate built from one path that is on disk, with no main
\* file and no exclusion, the files are the implementation files and the expansions of the
\* test templates that are on disk and not ignored; an entry is a test file
\* exactly when its path is such an expansion, so a candidate without such
\* expansion has no test file, and a path that is both an implementation file
\* and an expansion is listed once, as a test file
C20_TestFilesMerged ==
  ( /\ calls > 0
    /\ Len(props.componentPaths) = 1
    /\ ExistsSync(props.componentPaths[1])
    /\ props.main = NoPath
    /\ props.exclude = <<>>
    /\ Len(added) = 1 )
  => TestsMerged(added[1],
                 ImplementationFiles(props.componentPaths[1], GetIgnoreList(startMap)),
                 TestExpansions(props.tests,
                                ImplementationFiles(props.componentPaths[1],
                                                    GetIgnoreList(startMap)),
                                GetIgnoreList(startMap)))

\* foo is added with the tests {PARENT}/{FILE_NAME}.spec.ts and out/o.ts:
\* foo/a.spec.ts, found in the directory too, is committed once as a test
\* file, and the ignored out/o.ts is not added
C20_Witness ==
  /\ Returned
  /\ props.tests = <<SpecTemplate, OutFile>>
  /\ Len(added) = 1
  /\ compState[1] = "committed"
  /\ TrackedFile(FooSpec, TRUE) \in Range(GetComponent(bitMap, added[1].componentId).files)
  /\ P(<<"foo">>, <<"a", "ts">>) \in PathSet(added[1].files)
  /\ OutFile \notin PathSet(added[1].files)

----------------------------------------------------------------------------
(* Commit, reporting and the failures of the build *)

\* C21: when the invocation has succeeded, a candidate whose files were all
\* dropped by its checks has left the record of its identifier as it was and
\* is listed in addedComponents with its identifier and no file, in a batch as
\* in a single-component invocation
C21_EmptyCandidateReported ==
  (Returned /\ result = "ok") =>
    \A i \in DOMAIN added :
       compState[i] = "empty" =>
         /\ GetComponent(bitMap, added[i].componentId)
              = GetComponent(startMap, added[i].componentId)
         /\ \E e \in DOMAIN addedComponents :
              addedComponents[e] = [id |-> added[i].componentId, files |-> <<>>]

\* the commit of candidate i is taken in this step and writes the bit map
Commits(i) ==
  /\ added' = added
  /\ compState[i] = "checking"
  /\ compState'[i] = "committed"

CommitFollowsOverride(i, id, accepted) ==
  Commits(i) =>
    /\ (~props.override /\ IndexOfId(bitMap, id) # 0) =>
         /\ \A n \in DOMAIN GetComponent(bitMap, id).files :
              GetComponent(bitMap, id).files[n] \in Range(GetComponent(bitMap', id).files)
         /\ PathSet(GetComponent(bitMap', id).files)
              = PathSet(GetComponent(bitMap, id).files) \cup PathSet(accepted)
    /\ props.override =>
         /\ IndexOfId(bitMap', id) # 0
         /\ GetComponent(bitMap', id).files = accepted
         /\ GetComponent(bitMap', id).mainFile = added[i].mainFile
         /\ GetComponent(bitMap', id).trackDir = trackDirs[i]
         /\ GetComponent(bitMap', id).origin = props.origin

\* C22: a commit without override adds the accepted files to the record the
\* identifier has and keeps the files of that record; a commit with override
\* leaves a record that has the candidate's identifier, exactly the accepted
\* files, its main file and trackDir and the origin of the invocation, whatever
\* the other inputs are, trackDirFeature included
C22_CommitFollowsOverride ==
  [][ \A i \in Candidates :
        CommitFollowsOverride(i, added[i].componentId, AcceptedFiles(i)) ]_vars

\* foo and bar are added in one invocation, without identifier or namespace,
\* to a bit map without records
FooAndBarAdded ==
  /\ Returned
  /\ startMap = <<>>
  /\ props = Plain(<<FooDir, BarDir>>)

ReportedIds == {addedComponents[e].id : e \in DOMAIN addedComponents}

\* C23, amended: adding the directories foo and bar of the workspace ws in one
\* invocation, with no identifier and no namespace, to a bit map without
\* records succeeds with exactly two addedComponents entries, whose identifiers
\* have the base names foo and bar as name and the name of the parent
\* directory as namespace: ws/foo and ws/bar
C23_ParentAndBaseName ==
  FooAndBarAdded =>
    /\ result = "ok"
    /\ Len(addedComponents) = 2
    /\ ReportedIds = {GetValidBitId(ConsumerDirName, <<"foo">>),
                      GetValidBitId(ConsumerDirName, <<"bar">>)}

C23_Witness ==
  /\ FooAndBarAdded
  /\ Len(addedComponents) = 2
  /\ \E e \in DOMAIN addedComponents :
       addedComponents[e].id = [scope |-> "", box |-> <<"ws">>, name |-> <<"foo">>,
                                version |-> ""]

\* C23 as stated: the two identifiers are the base names foo and bar
C23_BaseNameIds ==
  FooAndBarAdded =>
    /\ Len(addedComponents) = 2
    /\ ReportedIds = {GetValidBitId(<<>>, <<"foo">>), GetValidBitId(<<>>, <<"bar">>)}

\* no file of candidate i was in the record of another component when the
\* invocation started
OwnFilesOnly(i) ==
  \A k \in DOMAIN added[i].files :
     GetComponentIdByPath(startMap, added[i].files[k].relativePath)
       \in {NoId, added[i].componentId}

\* C24: a candidate none of whose files is owned by another record is
\* reconciled without MissingComponentIdForImportedComponent, also when the
\* invocation has no identifier and the record of the candidate is Imported
C24_IdRequiredOnlyOnConflict ==
  \A i \in Candidates :
     (props.id = NoId /\ OwnFilesOnly(i)) =>
        /\ \A k \in DOMAIN fileState[i] : fileState[i][k] # "threw"
        /\ ~multiple => result # "MissingComponentIdForImportedComponent"

\* the invocation has one path, no tests and a main specifier, and its build
\* neither failed before the resolution of the main file nor in the
\* resolution of the identifier
MainReached ==
  /\ calls > 0
  /\ Len(props.componentPaths) = 1
  /\ ExistsSync(props.componentPaths[1])
  /\ props.tests = <<>>
  /\ props.main # NoPath
  /\ result \notin {"PathsNotExist", "NoFiles", "EmptyDirectory", "GeneralError",
                    "VersionShouldBeRemoved"}

\* the paths the main specifier resolves to against the files found for the path
MainExpansions(main, files) ==
  IF IsDsl(main) THEN {Format(main, CalculateFileInfo(f)) : f \in files} ELSE {main}

MainFileResolved(ignoreList, impl, expansions) ==
  /\ (\E q \in expansions \ impl : ExistsSync(q) /\ Ignores(ignoreList, q))
       => result = "ExcludedMainFile"
  /\ (\E q \in expansions : ExistsSync(q) /\ IsDir(q))
       => result \in {"ExcludedMainFile", "MainFileIsDir"}
  /\ (/\ \A q \in expansions : ~(ExistsSync(q) /\ (Ignores(ignoreList, q) \/ IsDir(q)))
      /\ props.exclude = <<>>)
       => /\ Len(added) = 1
          /\ added[1].mainFile # NoPath
          /\ Occurrences(added[1].files, added[1].mainFile) = 1
          /\ PathSet(added[1].files) = impl \cup {added[1].mainFile}
          /\ \A n \in DOMAIN added[1].files : ~added[1].files[n].test
          /\ (expansions \cap impl # {}) => added[1].mainFile \in impl

\* C25: for a literal and for a template main specifier, a resolved main path
\* that is on disk and ignored makes the invocation fail with
\* ExcludedMainFile, one that is a directory with MainFileIsDir; otherwise the
\* main file is among the candidate's files exactly once, added as a file that
\* is no test only when the path did not have it, and a file the path already
\* has is taken for a template in preference to one added from disk
C25_MainFileResolution ==
  MainReached =>
    MainFileResolved(BuildCandidates(startMap, props).ignoreList,
                     ImplementationFiles(props.componentPaths[1],
                                         BuildCandidates(startMap, props).ignoreList),
                     MainExpansions(props.main,
                                    ImplementationFiles(props.componentPaths[1],
                                      BuildCandidates(startMap, props).ignoreList)))

\* the invocation has an identifier and several paths, all on disk, no main
\* file and no exclusion, and its build succeeded
SeveralPathsOneId ==
  /\ calls > 0
  /\ props.id # NoId
  /\ Len(props.componentPaths) > 1
  /\ \A k \in DOMAIN props.componentPaths : ExistsSync(props.componentPaths[k])
  /\ props.main = NoPath
  /\ props.exclude = <<>>
  /\ added # <<>>

\* the test files of the branch of path p
BranchTests(p, ignoreList) ==
  TestExpansions(props.tests, ImplementationFiles(p, ignoreList), ignoreList)

MergedOf(c, ignoreList) ==
  /\ c.componentId = IF StoredIdOf(startMap, props.id) # NoId
                     THEN StoredIdOf(startMap, props.id)
                     ELSE ParseId(props.id)
  /\ PathSet(c.files)
       = UNION {ImplementationFiles(props.componentPaths[k], ignoreList)
                  \cup BranchTests(props.componentPaths[k], ignoreList) :
                k \in DOMAIN props.componentPaths}
  /\ \A q \in PathSet(c.files) : Occurrences(c.files, q) = 1
  /\ \A n \in DOMAIN c.files :
       c.files[n].test <=>
         \E k \in DOMAIN props.componentPaths :
            c.files[n].relativePath \in BranchTests(props.componentPaths[k], ignoreList)

\* C26: with an identifier and several paths the invocation builds one
\* candidate, with that identifier; its files are the union of the files of the
\* branches of the paths, each path once, and a file is a test file when the
\* branch of some path has it as a test file
C26_BranchesMerged ==
  SeveralPathsOneId =>
    /\ Len(added) = 1
    /\ ~multiple
    /\ MergedOf(added[1], GetIgnoreList(startMap))

\* foo/a.spec.ts and foo are added as ws/foo with the tests
\* {PARENT}/{FILE_NAME}.spec.ts: foo/a.spec.ts is no test file in the branch of
\* the file and a test file in the branch of the directory
C26_Witness ==
  /\ SeveralPathsOneId
  /\ Returned
  /\ props.componentPaths = <<FooSpec, FooDir>>
  /\ compState = <<"committed">>
  /\ Len(added[1].files) = 2
  /\ TrackedFile(FooSpec, TRUE) \in Range(GetComponent(bitMap, added[1].componentId).files)

\* the orders in which the branches of the paths of stats may reach the
\* assignment of finalBitId
Orders(stats) == {o \in [DOMAIN stats -> Range(stats)] : Range(o) = Range(stats)}

IdsOf(cs) == {cs[i].componentId : i \in DOMAIN cs}

\* the builder calls of the invocation, each with the paths it processes
BuilderCalls(b) ==
  IF b.multiple THEN {<<b.stats[k]>> : k \in DOMAIN b.stats} ELSE {b.stats}

IdsIndependent(b) ==
  /\ \A callStats \in BuilderCalls(b) :
       Len(callStats) > 1 =>
         /\ props.id # NoId
         /\ FirstBitId(startMap, props).finalBitId # NoId
  /\ ~b.multiple =>
       \A o \in Orders(b.stats) :
          AddOneComponent(startMap, o, props, b.ignoreList).componentId
            = added[1].componentId
  /\ b.multiple =>
       \A o \in Orders(b.stats) :
          IdsOf(TryAddingMultiple(startMap, o, props, b.ignoreList).added) = IdsOf(added)

\* C27: a builder call that processes several paths has resolved finalBitId
\* from the explicit id before its branches start, a batch gives each builder
\* call one path, and the ids of the candidates are the same in whatever order
\* the branches reach the assignment of finalBitId
C27_FinalBitIdNotRaced ==
  (calls > 0 /\ added # <<>>) => IdsIndependent(BuildCandidates(startMap, props))

\* bar and imp are added as one component with an explicit id: two branches,
\* whose paths would give two different ids
C27_Witness ==
  /\ calls > 0
  /\ Returned
  /\ ~multiple
  /\ props.id # NoId
  /\ Len(BuildCandidates(startMap, props).stats) = 2
  /\ \A k \in 1..2 : IsDir(BuildCandidates(startMap, props).stats[k])
  /\ IdFromDirPath(BuildCandidates(startMap, props).stats[1], props)
       # IdFromDirPath(BuildCandidates(startMap, props).stats[2], props)
  /\ compState = <<"committed">>

\* the failures add() raises before it reconciles a candidate
BuildFailures ==
  {"PathsNotExist", "NoFiles", "EmptyDirectory", "TestIsDirectory", "ExcludedMainFile",
   "MainFileIsDir", "VersionShouldBeRemoved", "GeneralError", "DuplicateIds"}

BuildFailed(b) == b.err \in BuildFailures

\* what holds of the invocation when its first record is written
BuildComplete(b) ==
  /\ b.err = ""
  /\ added = b.added
  /\ \A i, j \in DOMAIN added : i # j => added[i].componentId # added[j].componentId
  /\ \A i \in DOMAIN added : \A n \in DOMAIN added[i].files :
       IgnoreFilter(b.ignoreList, <<added[i].files[n].relativePath>>) # <<>>

StoreKeptByFailure ==
  (calls > 0 /\ BuildFailed(BuildCandidates(startMap, props)))
     => /\ bitMap = startMap
        /\ result \in BuildFailures
        /\ addedComponents = <<>>

WriteAfterBuild ==
  bitMap' # bitMap =>
     /\ calls' = calls
     /\ BuildComplete(BuildCandidates(startMap, props))

\* C28: an invocation whose build fails leaves the bit map as it was when the
\* invocation started, and the bit map changes only in an invocation whose
\* candidates are all built, without excluded files and with distinct ids
C28_BuildFailureKeepsStore == [](StoreKeptByFailure) /\ [][WriteAfterBuild]_vars

\* a batch fails with DuplicateIds on a bit map to which the invocation before
\* it has written a record
C28_Witness ==
  /\ calls = 2
  /\ result = "DuplicateIds"
  /\ multiple
  /\ startMap # <<>>
  /\ bitMap = startMap
  /\ prev.valid
  /\ prev.bitMap # prev.startMap

====
